---- MODULE Spec2Model ----
(***************************************************************************)
(* Workout-session engine of FitTracker: the session page                  *)
(* (src/components/WorkoutSession.tsx), the two other views that write     *)
(* sessions and sets (WorkoutsPage.tsx, WorkoutSessionDetails.tsx) and the *)
(* rows of workout_sessions / exercise_sets / routine_exercises they use.  *)
(*                                                                         *)
(* One browser tab: the router shows one page at a time.  Every request    *)
(* to the store is a call step followed by a response step; in Spec the    *)
(* user waits for the response before the next action (serialized          *)
(* operations).                                                            *)
(***************************************************************************)
EXTENDS Integers, Sequences, FiniteSets, Bags, TLC

\* ---- bounds of the model ------------------------------------------------
MaxSets == 3
MaxSessions == 1
MaxNow == 1

\* ---- data ----------------------------------------------------------------
\* JS null / undefined / SQL NULL
NULL == -1

\* the signed-in user (supabase.auth.getUser())
User == "u1"

\* values typed into the SetLogger form
Weights == {100}
Reps == {10}

\* rows of routine_exercises, per routine id, ordered by order_index.
\* Routine 1 is the routine of the documented scenario (rest of 30 seconds);
\* routine 2 has the same shape with a short rest, routine 3 a rest of 0.
InitialRoutineExercises ==
  << << [exercise_id |-> "A", target_sets |-> 2, rest_seconds |-> 30],
        [exercise_id |-> "B", target_sets |-> 1, rest_seconds |-> NULL] >>,
     << [exercise_id |-> "A", target_sets |-> 2, rest_seconds |-> 2],
        [exercise_id |-> "B", target_sets |-> 1, rest_seconds |-> NULL] >>,
     << [exercise_id |-> "C", target_sets |-> 2, rest_seconds |-> 0] >> >>

\* rows RoutineBuilder saves for routine 2: the exercises reordered and the
\* target_sets of A lowered
EditedRoutine == 2
EditedExercises ==
  << [exercise_id |-> "B", target_sets |-> 1, rest_seconds |-> NULL],
     [exercise_id |-> "A", target_sets |-> 1, rest_seconds |-> 2] >>

\* weight and reps typed in the scenario: 100 x 10 for A, 50 x 12 for B
ScenarioInputs == {<<100, 10>>, <<50, 12>>}

\* the routine of the scenario, and the routines the user starts in Spec
ScenarioRoutine == 1
RoutineIds == {2, 3}

\* order of the exercise ids (uuids) under ORDER BY exercise_id
ExRank == [A |-> 1, B |-> 2, C |-> 3]

VARIABLES
  workout_sessions,   \* table: sequence of rows, the index is the id
  exercise_sets,      \* table: bag of rows (rows differ otherwise only in their uuid)
  justCancelled,      \* sessionStorage item 'justCancelled' = 'true'
  now,                \* wall clock, in half minutes
  route,              \* page shown by the router
  detailsId,          \* :id of the session details page
  routineId,          \* search parameter ?routine=
  resumeSessionId,    \* search parameter ?resume=
  routineExercises,   \* useState<RoutineExercise[]>
  loading,            \* useState(true)
  workoutComplete,    \* useState(false)
  workoutState,       \* useState<WorkoutState>
  restTimer,          \* useState<NodeJS.Timeout | null>, 0 is null
  liveTimers,         \* interval handles that still fire
  pending,            \* request of the session page awaiting its response
  consoleError,       \* console.error line of the most recent handler, "" if none
  otherTab            \* a second tab: the useState<WorkoutSession[]> of /workouts,
                      \* the position of a start request of /workouts/start and
                      \* whether RoutineBuilder has saved its edit of a routine

vars == <<workout_sessions, exercise_sets, justCancelled, now, route, detailsId,
          routineId, resumeSessionId, routineExercises, loading, workoutComplete,
          workoutState, restTimer, liveTimers, pending, consoleError, otherTab>>

\* ---- helpers -------------------------------------------------------------
MinOf(S) == CHOOSE x \in S : \A y \in S : x <= y
MaxOf(S) == CHOOSE x \in S : \A y \in S : x >= y

\* table routine_exercises: the rows per routine id, those of a routine being
\* replaced when RoutineBuilder saves it
routine_exercises ==
  IF otherTab.routineSaved
  THEN [InitialRoutineExercises EXCEPT ![EditedRoutine] = EditedExercises]
  ELSE InitialRoutineExercises

\* initial value of workoutState, with sessionStartTime: new Date()
InitialWorkoutState(t) ==
  [session |-> NULL, currentExerciseIndex |-> 0, currentSet |-> 1, sets |-> <<>>,
   isResting |-> FALSE, restTimeRemaining |-> 0, sessionStartTime |-> t]

NoReq == [op |-> "none", ws |-> InitialWorkoutState(0), rex |-> <<>>,
          weight |-> 0, reps |-> 0, at |-> 0]

\* getLocalDateString(): midnight falls before the last instant of the clock
getLocalDateString(t) == IF t >= MaxNow THEN 1 ELSE 0

\* a duration that drops the started minute
RoundMinutes_Floor(d) == d \div 2

\* Math.round(ms / 60000) of a difference of d half minutes
RoundMinutes(d) == (d + 1) \div 2

\* .order('exercise_id, set_number')
RowLess(a, b) ==
  \/ ExRank[a.exercise_id] < ExRank[b.exercise_id]
  \/ a.exercise_id = b.exercise_id /\ a.set_number < b.set_number

\* n copies of a row
RECURSIVE Copies(_, _)
Copies(row, n) == IF n = 0 THEN <<>> ELSE <<row>> \o Copies(row, n - 1)

\* the rows of the bag B whose distinct values are S, in query order
RECURSIVE OrderRows(_, _)
OrderRows(B, S) ==
  IF S = {} THEN <<>>
  ELSE LET m == CHOOSE x \in S : \A y \in S \ {x} : RowLess(x, y)
       IN Copies(m, CopiesIn(m, B)) \o OrderRows(B, S \ {m})

\* rows loadExistingSets() fetches for a session
loadExistingSets(sessionId) ==
  OrderRows(exercise_sets,
            {r \in BagToSet(exercise_sets) : r.workout_session_id = sessionId})

\* sets.filter(s => s.exercise_id === ex).length
CountSets(sets, ex) == Cardinality({i \in DOMAIN sets : sets[i].exercise_id = ex})

\* routineExercise.sets || 3: rows of routine_exercises have no column `sets`
ExpectedSets(routineExercise) == 3

findNextUnfinishedExerciseIndex(sets, rex) ==
  LET unfinished == {i \in DOMAIN rex :
                       CountSets(sets, rex[i].exercise_id) < ExpectedSets(rex[i])}
  IN IF unfinished = {} THEN Len(rex) ELSE MinOf(unfinished) - 1

\* currentSet computed by resumeExistingSession
ResumeCurrentSet(sets, ex) ==
  LET nums == {sets[i].set_number : i \in {j \in DOMAIN sets : sets[j].exercise_id = ex}}
  IN IF nums # {} THEN MaxOf(nums) + 1 ELSE 1

\* rows an .eq('user_id').eq('status','active').eq('date', today) query returns
ActiveToday ==
  {s \in DOMAIN workout_sessions :
     /\ workout_sessions[s].user_id = User
     /\ workout_sessions[s].status = "active"
     /\ workout_sessions[s].date = getLocalDateString(now)}

\* const currentExercise = routineExercises[workoutState.currentExerciseIndex]
HasCurrentExercise ==
  /\ workoutState.currentExerciseIndex >= 0
  /\ workoutState.currentExerciseIndex < Len(routineExercises)

CurrentExercise == routineExercises[workoutState.currentExerciseIndex + 1]

\* the page renders its controls: not the spinner, not the completion screen
PageReady == route = "session" /\ ~loading /\ ~workoutComplete

\* serialized operations: no request of the page is in flight
Idle == pending.op = "none"

\* ---- initial state -------------------------------------------------------
Init ==
  /\ workout_sessions = <<>>
  /\ exercise_sets = EmptyBag
  /\ justCancelled = FALSE
  /\ now = 0
  /\ route = "workouts"
  /\ detailsId = NULL
  /\ routineId = NULL
  /\ resumeSessionId = NULL
  /\ routineExercises = <<>>
  /\ loading = TRUE
  /\ workoutComplete = FALSE
  /\ workoutState = InitialWorkoutState(0)
  /\ restTimer = 0
  /\ liveTimers = {}
  /\ pending = NoReq
  /\ consoleError = ""
  /\ otherTab = [sessions |-> {}, start |-> "none", rid |-> NULL, routineSaved |-> FALSE]

\* the session page is not mounted: its state does not exist
PageGone ==
  /\ routineId' = NULL
  /\ resumeSessionId' = NULL
  /\ routineExercises' = <<>>
  /\ loading' = TRUE
  /\ workoutComplete' = FALSE
  /\ workoutState' = InitialWorkoutState(0)
  /\ restTimer' = 0
  /\ liveTimers' = {}
  /\ pending' = NoReq

\* ---- session page: the three entry modes ------------------------------------
\* row inserted by createWorkoutSession
NewSessionRow(rid) ==
  [user_id |-> User, routine_id |-> rid, date |-> getLocalDateString(now),
   status |-> "active", created_at |-> now, duration_minutes |-> NULL,
   completed_at |-> NULL]

\* createWorkoutSession(name, routineId?): the duplicate-session guard.
\* .maybeSingle() yields the row when exactly one matches; with none, or with
\* several (error PGRST116, which the code ignores), existingSession is null.
createWorkoutSession(rid) ==
  IF Cardinality(ActiveToday) = 1
  THEN LET existingSession == CHOOSE s \in ActiveToday : TRUE
       IN /\ workoutState' =
               [InitialWorkoutState(now) EXCEPT
                  !.session = existingSession,
                  !.sessionStartTime = workout_sessions[existingSession].created_at,
                  !.sets = loadExistingSets(existingSession),
                  !.currentSet = 1]
          /\ UNCHANGED workout_sessions
  ELSE /\ Len(workout_sessions) < MaxSessions
       /\ workout_sessions' = Append(workout_sessions, NewSessionRow(rid))
       /\ workoutState' =
            [InitialWorkoutState(now) EXCEPT
               !.session = Len(workout_sessions) + 1,
               !.sessionStartTime = now]

\* /workouts/start?routine=rid: mount effect, loadRoutineAndCreateSession
LoadRoutineAndCreateSession(rid) ==
  /\ route = "workouts"
  /\ route' = "session"
  /\ routineId' = rid
  /\ resumeSessionId' = NULL
  /\ workoutComplete' = FALSE
  /\ IF justCancelled
     THEN /\ justCancelled' = FALSE
          /\ routineExercises' = <<>>
          /\ loading' = TRUE
          /\ workoutState' = InitialWorkoutState(now)
          /\ UNCHANGED workout_sessions
     ELSE /\ routineExercises' = routine_exercises[rid]
          /\ createWorkoutSession(rid)
          /\ loading' = FALSE
          /\ UNCHANGED justCancelled
  /\ UNCHANGED <<exercise_sets, now, otherTab, detailsId, restTimer, liveTimers, pending>>
  /\ consoleError' = ""

\* /workouts/start: mount effect, startCustomWorkout
StartCustomWorkout ==
  /\ route = "workouts"
  /\ route' = "session"
  /\ routineId' = NULL
  /\ resumeSessionId' = NULL
  /\ workoutComplete' = FALSE
  /\ routineExercises' = <<>>
  /\ createWorkoutSession(NULL)
  /\ loading' = FALSE
  /\ UNCHANGED <<exercise_sets, justCancelled, now, otherTab, detailsId, restTimer,
                 liveTimers, pending>>
  /\ consoleError' = ""

\* a session of another user in the same table, under an id that is none of
\* this user's
OtherSessionId == 0
OtherSession ==
  [user_id |-> "u2", routine_id |-> 2, date |-> 0, status |-> "active",
   created_at |-> 0, duration_minutes |-> NULL, completed_at |-> NULL]

\* .eq('id', sid) on workout_sessions
SessionExists(sid) == sid = OtherSessionId \/ sid \in DOMAIN workout_sessions
SessionRow(sid) == IF sid = OtherSessionId THEN OtherSession ELSE workout_sessions[sid]

\* a resume query without the status filter
ResumeQueryMatches_AnyStatus(row) == row.user_id = User

\* .eq('user_id', user.data.user.id).eq('status', 'active') of resumeExistingSession
ResumeQueryMatches(row) == row.user_id = User /\ row.status = "active"

\* /workouts/start?resume=sid: mount effect, resumeExistingSession.
\* A session without routine has no routine_exercises rows; an index equal to
\* the length makes currentExercise undefined and currentExercise.exercise_id
\* throws: the catch block navigates to /workouts.
ResumeExistingSession(sid) ==
  /\ route \in {"workouts", "details"}
  /\ LET found == SessionExists(sid) /\ ResumeQueryMatches(SessionRow(sid))
         sessionData == SessionRow(sid)
         rex == IF sessionData.routine_id = NULL THEN <<>>
                ELSE routine_exercises[sessionData.routine_id]
         sets == loadExistingSets(sid)
         unfinishedIndex == findNextUnfinishedExerciseIndex(sets, rex)
         currentExercise == rex[unfinishedIndex + 1]
     IN IF found /\ unfinishedIndex < Len(rex)
        THEN /\ route' = "session"
             /\ detailsId' = NULL
             /\ routineId' = NULL
             /\ resumeSessionId' = sid
             /\ routineExercises' = rex
             /\ loading' = FALSE
             /\ workoutComplete' = FALSE
             /\ workoutState' =
                  [InitialWorkoutState(now) EXCEPT
                     !.session = sid,
                     !.sessionStartTime = sessionData.created_at,
                     !.sets = sets,
                     !.currentExerciseIndex = unfinishedIndex,
                     !.currentSet = ResumeCurrentSet(sets, currentExercise.exercise_id)]
             /\ UNCHANGED <<restTimer, liveTimers, pending>>
             /\ consoleError' = ""
        ELSE /\ route' = "workouts"
             /\ detailsId' = NULL
             /\ PageGone
             /\ consoleError' = IF found THEN "Error resuming session"
                                ELSE "Session not found or not active"
  /\ UNCHANGED <<workout_sessions, exercise_sets, justCancelled, now, otherTab>>

\* leaving the session page (Back to Workouts, a sidebar link, browser back):
\* the component unmounts and the cleanup effect clears restTimer
LeaveSessionPage ==
  /\ route = "session"
  /\ Idle
  /\ route' = "workouts"
  /\ detailsId' = NULL
  /\ PageGone
  /\ UNCHANGED <<workout_sessions, exercise_sets, justCancelled, now, otherTab>>
  /\ consoleError' = ""

\* ---- session page: rest timer -----------------------------------------------
\* handle returned by setInterval: the least one that names no interval in use
NewTimer == CHOOSE h \in 1..3 : h \notin liveTimers /\ \A g \in 1..(h - 1) : g \in liveTimers

\* startRestTimer without the cleanup of the [restTimer] effect
startRestTimer_NoCleanup(ws, seconds) ==
  /\ workoutState' = [ws EXCEPT !.isResting = TRUE, !.restTimeRemaining = seconds]
  /\ liveTimers' = liveTimers \cup {NewTimer}
  /\ restTimer' = NewTimer

\* startRestTimer(seconds) applied to the state ws; setRestTimer(timer) makes
\* the cleanup effect of the [restTimer] effect clear the previous handle
startRestTimer(ws, seconds) ==
  /\ workoutState' = [ws EXCEPT !.isResting = TRUE, !.restTimeRemaining = seconds]
  /\ liveTimers' = (liveTimers \ {restTimer}) \cup {NewTimer}
  /\ restTimer' = NewTimer

\* customRestMinutes * 60 + customRestSeconds typed into the custom rest timer:
\* parseInt(e.target.value) || 0 keeps a typed negative number, and min="0" of
\* an input outside a form stops nothing
CustomRests == {-2, 0, 3}

\* startCustomRestTimer: the Start button of the custom rest timer, rendered
\* with the current exercise, resting or not
StartCustomRestTimer(totalSeconds) ==
  /\ PageReady
  /\ Idle
  /\ HasCurrentExercise
  /\ startRestTimer(workoutState, totalSeconds)
  /\ UNCHANGED <<workout_sessions, exercise_sets, justCancelled, now, otherTab, route,
                 detailsId, routineId, resumeSessionId, routineExercises, loading,
                 workoutComplete, pending>>
  /\ consoleError' = ""

\* one firing of the interval callback of timer h
RestTick(h) ==
  /\ route = "session"
  /\ Idle
  /\ h \in liveTimers
  /\ IF workoutState.restTimeRemaining <= 1
     THEN /\ liveTimers' = liveTimers \ {h}
          /\ workoutState' = [workoutState EXCEPT !.isResting = FALSE,
                                                  !.restTimeRemaining = 0]
     ELSE /\ workoutState' = [workoutState EXCEPT
                                !.restTimeRemaining = workoutState.restTimeRemaining - 1]
          /\ UNCHANGED liveTimers
  /\ UNCHANGED <<workout_sessions, exercise_sets, justCancelled, now, otherTab, route,
                 detailsId, routineId, resumeSessionId, routineExercises, loading,
                 workoutComplete, restTimer, pending>>
  /\ consoleError' = ""

\* skipRest that leaves the interval running
SkipRest_NoClear ==
  /\ PageReady
  /\ Idle
  /\ workoutState.isResting
  /\ workoutState' = [workoutState EXCEPT !.isResting = FALSE, !.restTimeRemaining = 0]
  /\ UNCHANGED <<workout_sessions, exercise_sets, justCancelled, now, otherTab, route,
                 detailsId, routineId, resumeSessionId, routineExercises, loading,
                 workoutComplete, liveTimers, restTimer, pending>>
  /\ consoleError' = ""

\* skipRest; its button is inside the rest-timer card
SkipRest ==
  /\ PageReady
  /\ Idle
  /\ workoutState.isResting
  /\ IF restTimer # 0
     THEN liveTimers' = liveTimers \ {restTimer} /\ restTimer' = 0
     ELSE UNCHANGED <<liveTimers, restTimer>>
  /\ workoutState' = [workoutState EXCEPT !.isResting = FALSE, !.restTimeRemaining = 0]
  /\ UNCHANGED <<workout_sessions, exercise_sets, justCancelled, now, otherTab, route,
                 detailsId, routineId, resumeSessionId, routineExercises, loading,
                 workoutComplete, pending>>
  /\ consoleError' = ""

\* ---- session page: navigation ------------------------------------------------
\* state updater of previousExercise
previousExerciseUpdate(prev, rex) ==
  LET newIndex == prev.currentExerciseIndex - 1
      prevExercise == rex[newIndex + 1]
  IN [prev EXCEPT !.currentExerciseIndex = newIndex,
                  !.currentSet = CountSets(prev.sets, prevExercise.exercise_id) + 1]

\* nextExercise keeping the set counter of the exercise it leaves
nextExerciseUpdate_KeepSet(prev, rex) ==
  [prev EXCEPT !.currentExerciseIndex = prev.currentExerciseIndex + 1]

\* state updater of nextExercise
nextExerciseUpdate(prev, rex) ==
  LET newIndex == prev.currentExerciseIndex + 1
      nextEx == rex[newIndex + 1]
  IN [prev EXCEPT !.currentExerciseIndex = newIndex,
                  !.currentSet = CountSets(prev.sets, nextEx.exercise_id) + 1]

\* Previous button, rendered when currentExerciseIndex > 0
PreviousExercise ==
  /\ PageReady
  /\ Idle
  /\ HasCurrentExercise
  /\ workoutState.currentExerciseIndex > 0
  /\ workoutState' = previousExerciseUpdate(workoutState, routineExercises)
  /\ UNCHANGED <<workout_sessions, exercise_sets, justCancelled, now, otherTab, route,
                 detailsId, routineId, resumeSessionId, routineExercises, loading,
                 workoutComplete, restTimer, liveTimers, pending>>
  /\ consoleError' = ""

\* Next button, rendered when currentExerciseIndex < routineExercises.length - 1
NextExercise ==
  /\ PageReady
  /\ Idle
  /\ HasCurrentExercise
  /\ workoutState.currentExerciseIndex < Len(routineExercises) - 1
  /\ workoutState' = nextExerciseUpdate(workoutState, routineExercises)
  /\ UNCHANGED <<workout_sessions, exercise_sets, justCancelled, now, otherTab, route,
                 detailsId, routineId, resumeSessionId, routineExercises, loading,
                 workoutComplete, restTimer, liveTimers, pending>>
  /\ consoleError' = ""

\* ---- session page: logSet -----------------------------------------------------
\* the SetLogger form is rendered
SetLoggerRendered ==
  /\ PageReady
  /\ HasCurrentExercise
  /\ workoutState.currentSet <= CurrentExercise.target_sets

\* a SetLogger whose submit button ignores the rest
SetLoggerDisabled_Never == FALSE

\* disabled={workoutState.isResting} on the SetLogger submit button
SetLoggerDisabled == workoutState.isResting

\* an insert numbering the row with the set after the current one
NewSetRow_NextNumber(c, currentExercise, weight, reps) ==
  [workout_session_id |-> c.session,
   exercise_id |-> currentExercise.exercise_id, set_number |-> c.currentSet + 1,
   weight |-> weight, reps |-> reps]

\* row written by the insert of logSet, c being the state the call closed over
NewSetRow(c, currentExercise, weight, reps) ==
  [workout_session_id |-> c.session,
   exercise_id |-> currentExercise.exercise_id, set_number |-> c.currentSet,
   weight |-> weight, reps |-> reps]

\* a completion test that asks for more sets than the target
IsComplete_Strict(updatedSets, rex) ==
  \A i \in DOMAIN rex : CountSets(updatedSets, rex[i].exercise_id) > rex[i].target_sets

\* routineExercises.every(ex => setsLogged >= ex.target_sets)
IsComplete(updatedSets, rex) ==
  \A i \in DOMAIN rex : CountSets(updatedSets, rex[i].exercise_id) >= rex[i].target_sets

\* condition of the automatic advance
ShouldAdvance(newCurrentSet, currentExercise, index, rex) ==
  /\ newCurrentSet > currentExercise.target_sets
  /\ index < Len(rex) - 1

\* a rest time that takes 0 for a duration
RestTime_ZeroIsRest(currentExercise) == currentExercise.rest_seconds

\* currentExercise.rest_seconds || null
RestTime(currentExercise) ==
  IF currentExercise.rest_seconds = NULL \/ currentExercise.rest_seconds = 0
  THEN NULL
  ELSE currentExercise.rest_seconds

\* a catch block that counts the failed set
AfterLogSetError_Counted(ws, c) == [ws EXCEPT !.currentSet = c.currentSet + 1]

\* workoutState after the catch block of logSet
AfterLogSetError(ws, c) == ws

\* SetLogger.handleSubmit -> logSet, up to the await of the insert
LogSet(weight, reps) ==
  /\ SetLoggerRendered
  /\ ~SetLoggerDisabled
  /\ Idle
  /\ workoutState.session # NULL
  /\ BagCardinality(exercise_sets) < MaxSets
  /\ pending' = [op |-> "logSet", ws |-> workoutState, rex |-> routineExercises,
                 weight |-> weight, reps |-> reps, at |-> 0]
  /\ UNCHANGED <<workout_sessions, exercise_sets, justCancelled, now, otherTab, route,
                 detailsId, routineId, resumeSessionId, routineExercises, loading,
                 workoutComplete, workoutState, restTimer, liveTimers>>
  /\ consoleError' = ""

\* the insert succeeded: the rest of the try block of logSet
LogSetOk ==
  /\ pending.op = "logSet"
  /\ LET c == pending.ws
         rex == pending.rex
         currentExercise == rex[c.currentExerciseIndex + 1]
         data == NewSetRow(c, currentExercise, pending.weight, pending.reps)
         updatedSets == Append(c.sets, data)
         newCurrentSet == c.currentSet + 1
         logged == [workoutState EXCEPT !.sets = updatedSets, !.currentSet = newCurrentSet]
         moved == IF ShouldAdvance(newCurrentSet, currentExercise, c.currentExerciseIndex, rex)
                  THEN nextExerciseUpdate(logged, rex)
                  ELSE logged
         restTime == RestTime(currentExercise)
     IN /\ exercise_sets' = exercise_sets (+) SetToBag({data})
        /\ IF IsComplete(updatedSets, rex)
           THEN /\ workoutState' = logged
                /\ pending' = [NoReq EXCEPT !.op = "finish", !.ws = c, !.rex = rex, !.at = now]
                /\ UNCHANGED <<restTimer, liveTimers>>
           ELSE /\ IF restTime # NULL
                   THEN startRestTimer(moved, restTime)
                   ELSE workoutState' = moved /\ UNCHANGED <<restTimer, liveTimers>>
                /\ pending' = NoReq
  /\ UNCHANGED <<workout_sessions, justCancelled, now, otherTab, route, detailsId, routineId,
                 resumeSessionId, routineExercises, loading, workoutComplete>>
  /\ consoleError' = ""

\* the insert failed: the catch block of logSet
LogSetError ==
  /\ pending.op = "logSet"
  /\ workoutState' = AfterLogSetError(workoutState, pending.ws)
  /\ pending' = NoReq
  /\ UNCHANGED <<workout_sessions, exercise_sets, justCancelled, now, otherTab, route,
                 detailsId, routineId, resumeSessionId, routineExercises, loading,
                 workoutComplete, restTimer, liveTimers>>
  /\ consoleError' = "Error logging set"

\* ---- session page: double submission ----------------------------------------
\* a second handleSubmit while the insert of the first logSet is awaited: the
\* form is not disabled by a request in flight and no render has happened, so
\* the second call closes over the same workoutState. The double submission
\* is followed for the sets that neither end the workout nor move the page to
\* the next exercise.
LogSetAgain(weight, reps) ==
  /\ pending.op = "logSet"
  /\ SetLoggerRendered
  /\ ~SetLoggerDisabled
  /\ BagCardinality(exercise_sets) + 1 < MaxSets
  /\ LET c == pending.ws
         currentExercise == pending.rex[c.currentExerciseIndex + 1]
         data == NewSetRow(c, currentExercise, pending.weight, pending.reps)
     IN /\ ~IsComplete(Append(c.sets, data), pending.rex)
        /\ ~ShouldAdvance(c.currentSet + 1, currentExercise, c.currentExerciseIndex,
                          pending.rex)
  /\ pending' = [op |-> "logSetTwice", ws |-> pending.ws, rex |-> pending.rex,
                 weight |-> pending.weight, reps |-> pending.reps, at |-> 0,
                 weight2 |-> weight, reps2 |-> reps]
  /\ UNCHANGED <<workout_sessions, exercise_sets, justCancelled, now, otherTab, route,
                 detailsId, routineId, resumeSessionId, routineExercises, loading,
                 workoutComplete, workoutState, restTimer, liveTimers>>
  /\ consoleError' = ""

\* the request of the second call, still in flight after the first response
SecondRequest ==
  [op |-> "logSet", ws |-> pending.ws, rex |-> pending.rex,
   weight |-> pending.weight2, reps |-> pending.reps2, at |-> 0]

\* the insert of the first of two calls succeeded: the rest of its try block
LogSetFirstOk ==
  /\ pending.op = "logSetTwice"
  /\ LET c == pending.ws
         rex == pending.rex
         currentExercise == rex[c.currentExerciseIndex + 1]
         data == NewSetRow(c, currentExercise, pending.weight, pending.reps)
         updatedSets == Append(c.sets, data)
         newCurrentSet == c.currentSet + 1
         logged == [workoutState EXCEPT !.sets = updatedSets, !.currentSet = newCurrentSet]
         moved == IF ShouldAdvance(newCurrentSet, currentExercise, c.currentExerciseIndex, rex)
                  THEN nextExerciseUpdate(logged, rex)
                  ELSE logged
         restTime == RestTime(currentExercise)
     IN /\ exercise_sets' = exercise_sets (+) SetToBag({data})
        /\ IF restTime # NULL
           THEN startRestTimer(moved, restTime)
           ELSE workoutState' = moved /\ UNCHANGED <<restTimer, liveTimers>>
  /\ pending' = SecondRequest
  /\ UNCHANGED <<workout_sessions, justCancelled, now, otherTab, route, detailsId, routineId,
                 resumeSessionId, routineExercises, loading, workoutComplete>>
  /\ consoleError' = ""

\* the insert of the first of two calls failed: its catch block
LogSetFirstError ==
  /\ pending.op = "logSetTwice"
  /\ workoutState' = AfterLogSetError(workoutState, pending.ws)
  /\ pending' = SecondRequest
  /\ UNCHANGED <<workout_sessions, exercise_sets, justCancelled, now, otherTab, route,
                 detailsId, routineId, resumeSessionId, routineExercises, loading,
                 workoutComplete, restTimer, liveTimers>>
  /\ consoleError' = "Error logging set"

\* ---- session page: Next pressed during a logSet --------------------------------
\* the Next button pressed while the insert of logSet is awaited: nothing
\* disables it. Followed for the sets that do not end the workout.
NextExerciseWhileLogging ==
  /\ pending.op = "logSet"
  /\ PageReady
  /\ HasCurrentExercise
  /\ workoutState.currentExerciseIndex < Len(routineExercises) - 1
  /\ LET c == pending.ws
         currentExercise == pending.rex[c.currentExerciseIndex + 1]
         data == NewSetRow(c, currentExercise, pending.weight, pending.reps)
     IN ~IsComplete(Append(c.sets, data), pending.rex)
  /\ workoutState' = nextExerciseUpdate(workoutState, routineExercises)
  /\ pending' = [pending EXCEPT !.op = "logSetMoved"]
  /\ UNCHANGED <<workout_sessions, exercise_sets, justCancelled, now, otherTab, route,
                 detailsId, routineId, resumeSessionId, routineExercises, loading,
                 workoutComplete, restTimer, liveTimers>>
  /\ consoleError' = ""

\* the automatic advance of a logSet whose closure says c, applied to the
\* state prev: routineExercises[newIndex] is undefined past the last exercise
\* and nextExercise.exercise_id throws inside the state updater
AdvanceThrows(prev, c, rex) ==
  /\ ShouldAdvance(c.currentSet + 1, rex[c.currentExerciseIndex + 1],
                   c.currentExerciseIndex, rex)
  /\ prev.currentExerciseIndex + 1 >= Len(rex)

\* the insert succeeded after the page had moved on: the rest of the try
\* block of logSet, its state updaters applied to the state of the page. An
\* updater that throws takes the whole page down.
LogSetMovedOk ==
  /\ pending.op = "logSetMoved"
  /\ LET c == pending.ws
         rex == pending.rex
         currentExercise == rex[c.currentExerciseIndex + 1]
         data == NewSetRow(c, currentExercise, pending.weight, pending.reps)
         updatedSets == Append(c.sets, data)
         newCurrentSet == c.currentSet + 1
         logged == [workoutState EXCEPT !.sets = updatedSets, !.currentSet = newCurrentSet]
         restTime == RestTime(currentExercise)
     IN /\ exercise_sets' = exercise_sets (+) SetToBag({data})
        /\ IF AdvanceThrows(workoutState, c, rex)
           THEN /\ route' = "error"
                /\ PageGone
           ELSE /\ LET moved == IF ShouldAdvance(newCurrentSet, currentExercise,
                                                 c.currentExerciseIndex, rex)
                                THEN nextExerciseUpdate(logged, rex)
                                ELSE logged
                   IN IF restTime # NULL
                      THEN startRestTimer(moved, restTime)
                      ELSE workoutState' = moved /\ UNCHANGED <<restTimer, liveTimers>>
                /\ pending' = NoReq
                /\ UNCHANGED <<route, routineId, resumeSessionId, routineExercises,
                               loading, workoutComplete>>
  /\ UNCHANGED <<workout_sessions, justCancelled, now, otherTab, detailsId>>
  /\ consoleError' = ""

\* the insert failed after the page had moved on: the catch block of logSet
LogSetMovedError ==
  /\ pending.op = "logSetMoved"
  /\ workoutState' = AfterLogSetError(workoutState, pending.ws)
  /\ pending' = NoReq
  /\ UNCHANGED <<workout_sessions, exercise_sets, justCancelled, now, otherTab, route,
                 detailsId, routineId, resumeSessionId, routineExercises, loading,
                 workoutComplete, restTimer, liveTimers>>
  /\ consoleError' = "Error logging set"

\* ---- session page: finish and cancel ---------------------------------------
\* fields written by the update of finishWorkout
FinishedRow(row, duration, at) ==
  [row EXCEPT !.duration_minutes = duration, !.status = "completed", !.completed_at = at]

\* a cancel that stamps the row like a completion
CancelledRow_Stamped(row, duration) ==
  [row EXCEPT !.duration_minutes = duration, !.status = "cancelled",
              !.completed_at = duration]

\* fields written by the update of cancelWorkout
CancelledRow(row, duration) ==
  [row EXCEPT !.duration_minutes = duration, !.status = "cancelled"]

\* Finish Workout confirmed in the popup: finishWorkout up to the await
FinishWorkout ==
  /\ PageReady
  /\ Idle
  /\ workoutState.session # NULL
  /\ pending' = [NoReq EXCEPT !.op = "finish", !.ws = workoutState,
                              !.rex = routineExercises, !.at = now]
  /\ UNCHANGED <<workout_sessions, exercise_sets, justCancelled, now, otherTab, route,
                 detailsId, routineId, resumeSessionId, routineExercises, loading,
                 workoutComplete, workoutState, restTimer, liveTimers>>
  /\ consoleError' = ""

\* the update of finishWorkout succeeded
FinishOk ==
  /\ pending.op = "finish"
  /\ LET sid == pending.ws.session
         duration == RoundMinutes(pending.at - pending.ws.sessionStartTime)
     IN workout_sessions' =
          [workout_sessions EXCEPT ![sid] = FinishedRow(@, duration, pending.at)]
  /\ workoutComplete' = TRUE
  /\ pending' = NoReq
  /\ UNCHANGED <<exercise_sets, justCancelled, now, otherTab, route, detailsId, routineId,
                 resumeSessionId, routineExercises, loading, workoutState, restTimer,
                 liveTimers>>
  /\ consoleError' = ""

\* Cancel Workout confirmed in the popup: cancelWorkout up to the await
CancelWorkout ==
  /\ PageReady
  /\ Idle
  /\ workoutState.session # NULL
  /\ justCancelled' = TRUE
  /\ pending' = [NoReq EXCEPT !.op = "cancel", !.ws = workoutState,
                              !.rex = routineExercises, !.at = now]
  /\ UNCHANGED <<workout_sessions, exercise_sets, now, otherTab, route, detailsId,
                 routineId, resumeSessionId, routineExercises, loading, workoutComplete,
                 workoutState, restTimer, liveTimers>>
  /\ consoleError' = ""

\* the update of cancelWorkout succeeded: navigate('/workouts', { replace: true })
CancelOk ==
  /\ pending.op = "cancel"
  /\ LET sid == pending.ws.session
         duration == RoundMinutes(pending.at - pending.ws.sessionStartTime)
     IN workout_sessions' = [workout_sessions EXCEPT ![sid] = CancelledRow(@, duration)]
  /\ route' = "workouts"
  /\ detailsId' = NULL
  /\ PageGone
  /\ UNCHANGED <<exercise_sets, justCancelled, now, otherTab>>
  /\ consoleError' = ""

\* the update of finishWorkout or cancelWorkout failed: the catch block
UpdateError ==
  /\ pending.op \in {"finish", "cancel"}
  /\ pending' = NoReq
  /\ UNCHANGED <<workout_sessions, exercise_sets, justCancelled, now, otherTab, route,
                 detailsId, routineId, resumeSessionId, routineExercises, loading,
                 workoutComplete, workoutState, restTimer, liveTimers>>
  /\ consoleError' = IF pending.op = "finish" THEN "Error finishing workout"
                     ELSE "Error cancelling workout"

\* ---- workouts list and session details ---------------------------------------
\* fields written by handleCompleteSession of both views
MarkedCompleteRow(row) == [row EXCEPT !.status = "completed", !.completed_at = now]

\* WorkoutsPage.handleCompleteSession: the button is shown for active sessions
ListCompleteSession(sid) ==
  /\ route = "workouts"
  /\ sid \in DOMAIN workout_sessions
  /\ workout_sessions[sid].status = "active"
  /\ workout_sessions' = [workout_sessions EXCEPT ![sid] = MarkedCompleteRow(@)]
  /\ UNCHANGED <<exercise_sets, justCancelled, now, otherTab, route, detailsId, routineId,
                 resumeSessionId, routineExercises, loading, workoutComplete, workoutState,
                 restTimer, liveTimers, pending>>
  /\ consoleError' = ""

\* /workouts/sessions/:id, loadWorkoutSession
OpenDetails(sid) ==
  /\ route = "workouts"
  /\ sid \in DOMAIN workout_sessions
  /\ route' = "details"
  /\ detailsId' = sid
  /\ UNCHANGED <<workout_sessions, exercise_sets, justCancelled, now, otherTab, routineId,
                 resumeSessionId, routineExercises, loading, workoutComplete, workoutState,
                 restTimer, liveTimers, pending>>
  /\ consoleError' = ""

\* WorkoutSessionDetails.handleDeleteSet
HandleDeleteSet(row) ==
  /\ route = "details"
  /\ BagIn(row, exercise_sets)
  /\ row.workout_session_id = detailsId
  /\ exercise_sets' = exercise_sets (-) SetToBag({row})
  /\ UNCHANGED <<workout_sessions, justCancelled, now, otherTab, route, detailsId,
                 routineId, resumeSessionId, routineExercises, loading, workoutComplete,
                 workoutState, restTimer, liveTimers, pending>>
  /\ consoleError' = ""

\* WorkoutSessionDetails.handleCompleteSession
DetailsCompleteSession ==
  /\ route = "details"
  /\ workout_sessions[detailsId].status = "active"
  /\ workout_sessions' = [workout_sessions EXCEPT ![detailsId] = MarkedCompleteRow(@)]
  /\ UNCHANGED <<exercise_sets, justCancelled, now, otherTab, route, detailsId, routineId,
                 resumeSessionId, routineExercises, loading, workoutComplete, workoutState,
                 restTimer, liveTimers, pending>>
  /\ consoleError' = ""

\* back arrow of the details page
CloseDetails ==
  /\ route = "details"
  /\ route' = "workouts"
  /\ detailsId' = NULL
  /\ UNCHANGED <<workout_sessions, exercise_sets, justCancelled, now, otherTab, routineId,
                 resumeSessionId, routineExercises, loading, workoutComplete, workoutState,
                 restTimer, liveTimers, pending>>
  /\ consoleError' = ""

\* ---- a second tab showing the workouts list ---------------------------------
\* ids of the sessions loadData fetches that the list shows with the active
\* badge and the Mark Complete button
ListedActive ==
  {s \in DOMAIN workout_sessions :
     workout_sessions[s].user_id = User /\ workout_sessions[s].status = "active"}

\* WorkoutsPage mounts or is reloaded in the second tab: loadData
OtherTabLoadData ==
  /\ Idle
  /\ otherTab' = [otherTab EXCEPT !.sessions = ListedActive]
  /\ UNCHANGED <<workout_sessions, exercise_sets, justCancelled, now, route,
                 detailsId, routineId, resumeSessionId, routineExercises, loading,
                 workoutComplete, workoutState, restTimer, liveTimers, pending>>
  /\ consoleError' = ""

\* WorkoutsPage.handleCompleteSession in the second tab, on a session its
\* list shows as active; loadData follows the update
OtherTabCompleteSession(sid) ==
  /\ Idle
  /\ sid \in otherTab.sessions
  /\ workout_sessions' = [workout_sessions EXCEPT ![sid] = MarkedCompleteRow(@)]
  /\ otherTab' = [otherTab EXCEPT !.sessions = ListedActive']
  /\ UNCHANGED <<exercise_sets, justCancelled, now, route, detailsId, routineId,
                 resumeSessionId, routineExercises, loading, workoutComplete,
                 workoutState, restTimer, liveTimers, pending>>
  /\ consoleError' = ""

\* /workouts/start?routine=rid opened in the second tab: createWorkoutSession up
\* to the answer of the existing-session query
OtherTabStartCheck(rid) ==
  /\ Idle
  /\ otherTab.start = "none"
  /\ otherTab' = IF Cardinality(ActiveToday) = 1
                 THEN [otherTab EXCEPT !.start = "session"]
                 ELSE [otherTab EXCEPT !.start = "checked", !.rid = rid]
  /\ UNCHANGED <<workout_sessions, exercise_sets, justCancelled, now, route,
                 detailsId, routineId, resumeSessionId, routineExercises, loading,
                 workoutComplete, workoutState, restTimer, liveTimers, pending>>
  /\ consoleError' = ""

\* an insert of the second tab that looks for an active session once more
OtherTabStartInsert_Rechecked ==
  /\ Idle
  /\ otherTab.start = "checked"
  /\ Len(workout_sessions) < MaxSessions + 1
  /\ IF ActiveToday = {}
     THEN workout_sessions' = Append(workout_sessions, NewSessionRow(otherTab.rid))
     ELSE UNCHANGED workout_sessions
  /\ otherTab' = [otherTab EXCEPT !.start = "session", !.rid = NULL]
  /\ UNCHANGED <<exercise_sets, justCancelled, now, route, detailsId, routineId,
                 resumeSessionId, routineExercises, loading, workoutComplete,
                 workoutState, restTimer, liveTimers, pending>>
  /\ consoleError' = ""

\* createWorkoutSession in the second tab, after the query found no session:
\* the insert; the table holds one more row than a single tab can create
OtherTabStartInsert ==
  /\ Idle
  /\ otherTab.start = "checked"
  /\ Len(workout_sessions) < MaxSessions + 1
  /\ workout_sessions' = Append(workout_sessions, NewSessionRow(otherTab.rid))
  /\ otherTab' = [otherTab EXCEPT !.start = "session", !.rid = NULL]
  /\ UNCHANGED <<exercise_sets, justCancelled, now, route, detailsId, routineId,
                 resumeSessionId, routineExercises, loading, workoutComplete,
                 workoutState, restTimer, liveTimers, pending>>
  /\ consoleError' = ""

\* the second tab leaves its session page
OtherTabLeaveSessionPage ==
  /\ Idle
  /\ otherTab.start = "session"
  /\ otherTab' = [otherTab EXCEPT !.start = "none"]
  /\ UNCHANGED <<workout_sessions, exercise_sets, justCancelled, now, route,
                 detailsId, routineId, resumeSessionId, routineExercises, loading,
                 workoutComplete, workoutState, restTimer, liveTimers, pending>>
  /\ consoleError' = ""

\* RoutineBuilder.handleSave of an existing routine, in the second tab: the
\* rows of the routine are deleted and the edited ones inserted
HandleSaveRoutine ==
  /\ Idle
  /\ ~otherTab.routineSaved
  /\ otherTab' = [otherTab EXCEPT !.routineSaved = TRUE]
  /\ UNCHANGED <<workout_sessions, exercise_sets, justCancelled, now, route,
                 detailsId, routineId, resumeSessionId, routineExercises, loading,
                 workoutComplete, workoutState, restTimer, liveTimers, pending>>
  /\ consoleError' = ""

\* ---- time ---------------------------------------------------------------------
AdvanceClock ==
  /\ Idle
  /\ now < MaxNow
  /\ now' = now + 1
  /\ UNCHANGED <<workout_sessions, exercise_sets, justCancelled, otherTab, route,
                 detailsId, routineId, resumeSessionId, routineExercises, loading,
                 workoutComplete, workoutState, restTimer, liveTimers, pending>>
  /\ consoleError' = ""

\* ---- specification --------------------------------------------------------------
Next ==
  \/ \E rid \in RoutineIds : LoadRoutineAndCreateSession(rid)
  \/ StartCustomWorkout
  \/ \E sid \in OtherSessionId..MaxSessions : ResumeExistingSession(sid)
  \/ LeaveSessionPage
  \/ \E h \in 1..3 : RestTick(h)
  \/ SkipRest
  \/ PreviousExercise
  \/ NextExercise
  \/ \E w \in Weights, r \in Reps : LogSet(w, r)
  \/ LogSetOk
  \/ LogSetError
  \/ FinishWorkout
  \/ FinishOk
  \/ CancelWorkout
  \/ CancelOk
  \/ UpdateError
  \/ \E sid \in 1..MaxSessions : ListCompleteSession(sid)
  \/ \E sid \in 1..MaxSessions : OpenDetails(sid)
  \/ \E row \in BagToSet(exercise_sets) : HandleDeleteSet(row)
  \/ DetailsCompleteSession
  \/ CloseDetails
  \/ AdvanceClock

Spec == Init /\ [][Next]_vars

\* the documented scenario: routine 1 started from scratch, sets logged, rests
\* skipped or waited out, the workout finished
NextScenario ==
  \/ LoadRoutineAndCreateSession(ScenarioRoutine)
  \/ \E h \in 1..3 : RestTick(h)
  \/ SkipRest
  \/ \E x \in ScenarioInputs : LogSet(x[1], x[2])
  \/ LogSetOk
  \/ LogSetError
  \/ FinishOk

SpecScenario == Init /\ [][NextScenario]_vars

\* the user also starts custom rest timers
NextRest ==
  \/ Next
  \/ \E totalSeconds \in CustomRests : StartCustomRestTimer(totalSeconds)

SpecRest == Init /\ [][NextRest]_vars

\* one visit of the session page, started from a routine, on which the form is
\* also submitted twice in a row
NextDouble ==
  \/ \E rid \in RoutineIds : LoadRoutineAndCreateSession(rid)
  \/ \E h \in 1..3 : RestTick(h)
  \/ SkipRest
  \/ PreviousExercise
  \/ NextExercise
  \/ \E w \in Weights, r \in Reps : LogSet(w, r)
  \/ \E x \in ScenarioInputs : LogSetAgain(x[1], x[2])
  \/ LogSetFirstOk
  \/ LogSetFirstError
  \/ LogSetOk
  \/ LogSetError
  \/ FinishOk
  \/ UpdateError

SpecDouble == Init /\ [][NextDouble]_vars

\* workouts are started, left, finished and cancelled in two tabs
NextRace ==
  \/ \E rid \in RoutineIds : LoadRoutineAndCreateSession(rid)
  \/ StartCustomWorkout
  \/ LeaveSessionPage
  \/ FinishWorkout
  \/ FinishOk
  \/ CancelWorkout
  \/ CancelOk
  \/ UpdateError
  \/ AdvanceClock
  \/ \E rid \in RoutineIds : OtherTabStartCheck(rid)
  \/ OtherTabStartInsert
  \/ OtherTabLeaveSessionPage

SpecRace == Init /\ [][NextRace]_vars

\* a routine is edited while workouts go on
NextEdit ==
  \/ Next
  \/ HandleSaveRoutine

SpecEdit == Init /\ [][NextEdit]_vars

\* one visit of the session page, started from a routine, on which Next is
\* also pressed while a set is being logged
NextOverlap ==
  \/ \E rid \in RoutineIds : LoadRoutineAndCreateSession(rid)
  \/ \E h \in 1..3 : RestTick(h)
  \/ SkipRest
  \/ PreviousExercise
  \/ NextExercise
  \/ \E x \in ScenarioInputs : LogSet(x[1], x[2])
  \/ NextExerciseWhileLogging
  \/ LogSetMovedOk
  \/ LogSetMovedError
  \/ LogSetOk
  \/ LogSetError
  \/ FinishOk
  \/ UpdateError

SpecOverlap == Init /\ [][NextOverlap]_vars

\* the user has the application open in two tabs
NextTwoViews ==
  \/ Next
  \/ OtherTabLoadData
  \/ \E sid \in 1..MaxSessions : OtherTabCompleteSession(sid)

SpecTwoViews == Init /\ [][NextTwoViews]_vars

\* ---- properties -------------------------------------------------------------------
\* a step in which resumeExistingSession puts a session on the page
ResumedNow == route # "session" /\ route' = "session" /\ resumeSessionId' # NULL

\* a step in which start-from-routine or start-custom opens the page
StartedNow == route = "workouts" /\ route' = "session" /\ resumeSessionId' = NULL

\* the response step of a logSet whose insert succeeded / failed
LogSetSucceeded == pending.op = "logSet" /\ exercise_sets' # exercise_sets
LogSetFailed == pending.op = "logSet" /\ pending'.op = "none" /\ exercise_sets' = exercise_sets

\* index of the first exercise with fewer sets than its own target_sets, else the length
FirstBelowTarget(sets, rex) ==
  LET below == {i \in DOMAIN rex : CountSets(sets, rex[i].exercise_id) < rex[i].target_sets}
  IN IF below = {} THEN Len(rex) ELSE MinOf(below) - 1

\* every exercise of rex has at least target_sets sets in sets
AllTargetsMet(sets, rex) ==
  \A i \in DOMAIN rex : CountSets(sets, rex[i].exercise_id) >= rex[i].target_sets

\* (a resume loads every persisted set of the session into workoutState.sets)
\* C1: after a resume, currentExerciseIndex is the index of the first exercise
\* (in order_index order) whose number of persisted sets is below that
\* exercise's own target_sets, or the sequence length if there is none.
C1_ResumePointFirstBelowTarget ==
  [][ResumedNow =>
       workoutState'.currentExerciseIndex =
         FirstBelowTarget(workoutState'.sets, routineExercises')]_vars

\* C2: after a resume, currentSet is the number of persisted sets of the
\* resume-point exercise plus one, whatever their set_number values.
C2_ResumeSetNumberIsCountPlusOne ==
  [][ResumedNow =>
       workoutState'.currentSet =
         CountSets(workoutState'.sets,
                   routineExercises'[workoutState'.currentExerciseIndex + 1].exercise_id) + 1]_vars

\* at most one active session per user and calendar date
AtMostOneActivePerDate ==
  \A s, t \in DOMAIN workout_sessions :
    ( /\ workout_sessions[s].status = "active"
      /\ workout_sessions[t].status = "active"
      /\ workout_sessions[s].user_id = workout_sessions[t].user_id
      /\ workout_sessions[s].date = workout_sessions[t].date ) => s = t

\* C3: a start (from a routine or custom) while the user has an active session
\* dated today inserts no session row, leaves the page holding that session
\* and takes its created_at as sessionStartTime; so there is never more than
\* one active session per user and date.
C3_StartResumesActiveSession ==
  /\ [][(StartedNow /\ ActiveToday # {}) =>
          /\ workout_sessions' = workout_sessions
          /\ workoutState'.session \in ActiveToday
          /\ workoutState'.sessionStartTime =
               workout_sessions[workoutState'.session].created_at]_vars
  /\ []AtMostOneActivePerDate

\* the rest countdown is running: a live interval is the page's restTimer
TimerRunning == restTimer # 0 /\ restTimer \in liveTimers

\* C4: while isResting is true no logSet takes place: the form cannot submit,
\* no request is issued, no row is persisted and the set history is unchanged;
\* on the mounted page isResting ends only by skipRest or by the tick that
\* expires the countdown.
C4_NoLogSetWhileResting ==
  [][workoutState.isResting =>
       /\ ~(\E w \in Weights, r \in Reps : LogSet(w, r))
       /\ pending.op # "logSet" /\ pending'.op # "logSet"
       /\ exercise_sets' = exercise_sets
       /\ route' = "session" => workoutState'.sets = workoutState.sets
       /\ (route' = "session" /\ ~workoutState'.isResting) =>
            \/ SkipRest
            \/ \E h \in 1..3 : RestTick(h) /\ workoutState.restTimeRemaining <= 1]_vars

\* resting in front of a form that could otherwise be submitted
C4_Witness ==
  /\ workoutState.isResting
  /\ SetLoggerRendered
  /\ Idle
  /\ workoutState.session # NULL
  /\ BagCardinality(exercise_sets) < MaxSets

\* C5: a successful logSet persists exactly one new row, for the current
\* exercise and with set_number equal to currentSet before the call, appends
\* that row to the set history and, unless the exercise index moves,
\* increments currentSet by one.
C5_LogSetPersistsOneRow ==
  [][(/\ LogSetSucceeded
      /\ workout_sessions[workoutState.session].status = "active"
      /\ ~workoutState.isResting) =>
       LET row == [workout_session_id |-> workoutState.session,
                   exercise_id |-> CurrentExercise.exercise_id,
                   set_number |-> workoutState.currentSet,
                   weight |-> pending.weight, reps |-> pending.reps]
       IN /\ exercise_sets' = exercise_sets (+) SetToBag({row})
          /\ workoutState'.sets = Append(workoutState.sets, row)
          /\ workoutState'.currentExerciseIndex = workoutState.currentExerciseIndex
               => workoutState'.currentSet = workoutState.currentSet + 1]_vars

\* the first set of an exercise was logged and the page stays on the exercise
C5_Witness ==
  /\ route = "session"
  /\ Idle
  /\ BagCardinality(exercise_sets) = 1
  /\ Len(workoutState.sets) = 1
  /\ BagIn(workoutState.sets[1], exercise_sets)
  /\ workoutState.sets[1].set_number = 1
  /\ workoutState.currentExerciseIndex = 0
  /\ workoutState.currentSet = 2

\* C6: a failed insert leaves the in-memory state as it was: currentSet, the
\* set history and the exercise index are unchanged, no rest timer starts and
\* the session is not finished; the form submits the same set number again.
C6_FailedInsertLeavesState ==
  [][LogSetFailed =>
       /\ workoutState' = workoutState
       /\ workoutState'.currentSet = pending.ws.currentSet
       /\ workoutState'.sets = pending.ws.sets
       /\ routineExercises' = routineExercises
       /\ restTimer' = restTimer /\ liveTimers' = liveTimers
       /\ workoutComplete' = workoutComplete
       /\ workout_sessions' = workout_sessions
       /\ route' = route
       /\ (\E w \in Weights, r \in Reps : ENABLED LogSet(w, r))']_vars

\* the insert has just failed and the form is there for the retry
C6_Witness ==
  /\ consoleError = "Error logging set"
  /\ SetLoggerRendered
  /\ ~SetLoggerDisabled
  /\ Idle

\* C7: when a successful logSet brings the number of logged sets of the
\* current exercise up to its target_sets, a next exercise exists and not
\* every exercise has met its target, the index moves on by one and currentSet
\* becomes the number of sets logged for the next exercise plus one; while the
\* number is below target_sets the index stays.
C7_AdvanceWhenTargetReached ==
  [][LogSetSucceeded =>
       LET i == workoutState.currentExerciseIndex
           rex == routineExercises
           count == CountSets(workoutState'.sets, rex[i + 1].exercise_id)
       IN IF count >= rex[i + 1].target_sets
          THEN (i < Len(rex) - 1 /\ ~AllTargetsMet(workoutState'.sets, rex)) =>
                 /\ workoutState'.currentExerciseIndex = i + 1
                 /\ workoutState'.currentSet =
                      CountSets(workoutState'.sets, rex[i + 2].exercise_id) + 1
          ELSE workoutState'.currentExerciseIndex = i]_vars

\* C8 as stated: after a successful logSet that does not complete the routine
\* the rest timer is started if and only if the exercise logged against has a
\* rest_seconds, with that many seconds remaining.
C8_RestTimerIffConfigured ==
  [][(LogSetSucceeded /\ ~AllTargetsMet(workoutState'.sets, routineExercises)) =>
       IF CurrentExercise.rest_seconds # NULL
       THEN /\ workoutState'.isResting
            /\ workoutState'.restTimeRemaining = CurrentExercise.rest_seconds
            /\ TimerRunning'
       ELSE /\ ~workoutState'.isResting
            /\ restTimer' = restTimer /\ liveTimers' = liveTimers]_vars

\* C8: after a successful logSet that does not complete the routine the rest
\* timer is started if and only if the exercise logged against has a
\* rest_seconds other than 0, with that many seconds remaining, also when
\* the same logSet moved on to the next exercise; the next exercise's
\* rest_seconds plays no role.
C8_RestTimerIffConfiguredNonZero ==
  [][(LogSetSucceeded /\ ~AllTargetsMet(workoutState'.sets, routineExercises)) =>
       IF CurrentExercise.rest_seconds # NULL /\ CurrentExercise.rest_seconds # 0
       THEN /\ workoutState'.isResting
            /\ workoutState'.restTimeRemaining = CurrentExercise.rest_seconds
            /\ TimerRunning'
       ELSE /\ ~workoutState'.isResting
            /\ workoutState'.restTimeRemaining = workoutState.restTimeRemaining
            /\ restTimer' = restTimer /\ liveTimers' = liveTimers]_vars

\* the page moved on to an exercise without rest and counts down the rest of
\* the exercise it left
C8_Witness ==
  /\ route = "session"
  /\ workoutState.currentExerciseIndex = 1
  /\ CurrentExercise.rest_seconds = NULL
  /\ routineExercises[1].rest_seconds = 2
  /\ workoutState.isResting
  /\ workoutState.restTimeRemaining = 2
  /\ TimerRunning
  /\ workoutState.sets # <<>>
  /\ workoutState.sets[Len(workoutState.sets)].exercise_id = routineExercises[1].exercise_id

\* the step that logs the second set of A in the scenario
SecondSetOfALogged ==
  /\ LogSetSucceeded
  /\ [i \in DOMAIN workoutState'.sets |-> workoutState'.sets[i].exercise_id] = <<"A", "A">>

\* C9 as stated: in the scenario, logging set 2 of A leaves the page on B with
\* currentSet 1 and no rest timer running.
C9_ScenarioNoRestOnB ==
  [][SecondSetOfALogged =>
       /\ workoutState'.currentExerciseIndex = 1
       /\ workoutState'.currentSet = 1
       /\ ~workoutState'.isResting
       /\ ~TimerRunning']_vars

\* C9: in the scenario, logging set 2 of A leaves the page on B with
\* currentSet 1 and the rest timer of A running at 30 seconds.
C9_ScenarioRestOfAOnB ==
  [][SecondSetOfALogged =>
       /\ routineExercises'[workoutState'.currentExerciseIndex + 1].exercise_id = "B"
       /\ workoutState'.currentSet = 1
       /\ workoutState'.isResting
       /\ workoutState'.restTimeRemaining = 30
       /\ TimerRunning']_vars

\* set 1 of A logged, the rest skipped, set 2 of A logged
C9_Witness ==
  /\ Len(workoutState.sets) = 2
  /\ workoutState.sets[2].exercise_id = "A"
  /\ workoutState.sets[2].set_number = 2
  /\ workoutState.currentExerciseIndex = 1
  /\ workoutState.currentSet = 1
  /\ workoutState.isResting
  /\ workoutState.restTimeRemaining = 30
  /\ TimerRunning

\* C10: when a successful logSet leaves every exercise of the routine with
\* at least target_sets sets, the same handler goes on to finishWorkout for
\* the session, without advance and without rest timer; the update it issues,
\* when the store accepts it, makes the session completed.
C10_AllTargetsMetFinishes ==
  [][ /\ (LogSetSucceeded /\ AllTargetsMet(workoutState'.sets, routineExercises)) =>
           ( /\ pending'.op = "finish"
             /\ pending'.ws.session = workoutState.session
             /\ workoutState'.currentExerciseIndex = workoutState.currentExerciseIndex
             /\ ~workoutState'.isResting
             /\ restTimer' = restTimer /\ liveTimers' = liveTimers )
      /\ (LogSetSucceeded /\ ~AllTargetsMet(workoutState'.sets, routineExercises)) =>
           pending'.op = "none"
      /\ (pending.op = "finish" /\ workout_sessions' # workout_sessions) =>
           ( /\ workout_sessions'[pending.ws.session].status = "completed"
             /\ workoutComplete'
             /\ workoutState' = workoutState
             /\ restTimer' = restTimer /\ liveTimers' = liveTimers ) ]_vars

\* the last set was logged and the session was completed by the same handler
C10_Witness ==
  /\ workoutComplete
  /\ route = "session"
  /\ routineExercises # <<>>
  /\ AllTargetsMet(workoutState.sets, routineExercises)
  /\ workout_sessions[workoutState.session].status = "completed"
  /\ consoleError = ""

\* the response step of a finishWorkout whose update succeeded
FinishSucceeded == pending.op = "finish" /\ workout_sessions' # workout_sessions

\* the whole number of minutes nearest to d half minutes, halves going up
NearestMinute(d) == CHOOSE m \in 0..(d + 1) : 2 * m - 1 <= d /\ d < 2 * m + 1

\* C11: finishing an active session succeeds whatever the number of exercises
\* below their target: the persisted row gets status completed, completed_at
\* the time of the call and duration_minutes the rounded minutes elapsed since
\* sessionStartTime, nothing else changes in the table, the completion screen
\* shows and no error is logged.
C11_FinishCompletesSession ==
  [][(FinishSucceeded /\ workout_sessions[workoutState.session].status = "active") =>
       LET sid == workoutState.session
           elapsed == now - workoutState.sessionStartTime
       IN /\ workout_sessions' =
               [workout_sessions EXCEPT
                  ![sid] = [@ EXCEPT !.status = "completed",
                                     !.completed_at = now,
                                     !.duration_minutes = NearestMinute(elapsed)]]
          /\ workout_sessions'[sid].completed_at # NULL
          /\ workout_sessions'[sid].duration_minutes # NULL
          /\ workoutComplete'
          /\ consoleError' = ""]_vars

\* a session finished half a minute after its start with an exercise below target
C11_Witness ==
  /\ route = "session"
  /\ workoutComplete
  /\ consoleError = ""
  /\ routineExercises # <<>>
  /\ ~AllTargetsMet(workoutState.sets, routineExercises)
  /\ workout_sessions[workoutState.session].status = "completed"
  /\ workout_sessions[workoutState.session].completed_at = 1
  /\ workout_sessions[workoutState.session].duration_minutes = 1

\* the response step of a cancelWorkout whose update succeeded
CancelSucceeded == pending.op = "cancel" /\ workout_sessions' # workout_sessions

\* C12: cancelling an active session sets the persisted status to cancelled
\* and duration_minutes to the rounded elapsed minutes, leaves completed_at
\* unset and every logged set in place; the session is no longer active.
C12_CancelKeepsSets ==
  [][(CancelSucceeded /\ workout_sessions[workoutState.session].status = "active") =>
       LET sid == workoutState.session
           elapsed == now - workoutState.sessionStartTime
       IN /\ workout_sessions' =
               [workout_sessions EXCEPT
                  ![sid] = [@ EXCEPT !.status = "cancelled",
                                     !.duration_minutes = NearestMinute(elapsed)]]
          /\ workout_sessions'[sid].duration_minutes # NULL
          /\ workout_sessions'[sid].completed_at = NULL
          /\ exercise_sets' = exercise_sets
          /\ sid \notin ActiveToday'
          /\ consoleError' = ""]_vars

\* a cancelled session that keeps the set logged before the cancel
C12_Witness ==
  /\ route = "workouts"
  /\ \E s \in DOMAIN workout_sessions :
       /\ workout_sessions[s].status = "cancelled"
       /\ workout_sessions[s].duration_minutes # NULL
       /\ workout_sessions[s].completed_at = NULL
       /\ \E r \in BagToSet(exercise_sets) : r.workout_session_id = s

\* the session sid is this user's and active
Resumable(sid) ==
  /\ sid \in DOMAIN workout_sessions
  /\ workout_sessions[sid].user_id = User
  /\ workout_sessions[sid].status = "active"

\* C13: a resume of a session id that is missing, belongs to another user or
\* names a completed or cancelled session fails: the page holds no session,
\* no row is inserted or changed and the user is sent back to /workouts.
C13_ResumeOfNonActiveFails ==
  [][\A sid \in OtherSessionId..MaxSessions :
       (ResumeExistingSession(sid) /\ ~Resumable(sid)) =>
          /\ route' = "workouts"
          /\ workoutState'.session = NULL
          /\ resumeSessionId' = NULL
          /\ workout_sessions' = workout_sessions
          /\ exercise_sets' = exercise_sets
          /\ consoleError' = "Session not found or not active"]_vars

\* back on the list after the resume of a finished or cancelled session failed
C13_Witness ==
  /\ route = "workouts"
  /\ consoleError = "Session not found or not active"
  /\ workoutState.session = NULL
  /\ \E s \in DOMAIN workout_sessions : workout_sessions[s].status \in {"completed", "cancelled"}

\* C14: the status of a persisted session only moves from active to completed
\* or from active to cancelled; a completed or cancelled session keeps its
\* status under every finish, cancel and mark-as-complete, also when issued
\* from a view that loaded the session while it was active.
C14_StatusOnlyLeavesActive ==
  [][\A s \in DOMAIN workout_sessions :
       workout_sessions'[s].status # workout_sessions[s].status =>
         /\ workout_sessions[s].status = "active"
         /\ workout_sessions'[s].status \in {"completed", "cancelled"}]_vars

\* C15: no set row is inserted for a session whose persisted status is not
\* active: a logSet on a completed or cancelled session persists nothing.
C15_SetsOnlyForActiveSessions ==
  [][\A row \in BagToSet(exercise_sets') :
       CopiesIn(row, exercise_sets') > CopiesIn(row, exercise_sets) =>
         workout_sessions[row.workout_session_id].status = "active"]_vars

\* C16: at most one rest countdown is ticking: the only interval that can still
\* fire is the one held in restTimer, so a timer started from logSet or from the
\* custom rest timer while another one runs replaces it and restTimeRemaining
\* is decremented by one interval only.
C16_OneCountdown ==
  /\ Cardinality(liveTimers) <= 1
  /\ liveTimers \subseteq {restTimer}

\* a second timer was started while the first one was running, and only the
\* second one is left
C16_Witness ==
  /\ route = "session"
  /\ workoutState.isResting
  /\ restTimer = 2
  /\ liveTimers = {2}
  /\ workoutState.restTimeRemaining = 3

\* C17: skipRest, at any remaining time, leaves isResting false and
\* restTimeRemaining 0, stops the countdown (no interval is left to fire) and
\* changes neither currentExerciseIndex, currentSet, the set history nor the
\* persisted sets.
C17_SkipRestEndsRest ==
  [][SkipRest =>
       /\ ~workoutState'.isResting
       /\ workoutState'.restTimeRemaining = 0
       /\ \A h \in 1..3 : ~(ENABLED RestTick(h))'
       /\ workoutState'.currentExerciseIndex = workoutState.currentExerciseIndex
       /\ workoutState'.currentSet = workoutState.currentSet
       /\ workoutState'.sets = workoutState.sets
       /\ exercise_sets' = exercise_sets]_vars

\* Skip Rest is on screen in the middle of a countdown, after a logged set
C17_Witness ==
  /\ ENABLED SkipRest
  /\ TimerRunning
  /\ workoutState.restTimeRemaining = 2
  /\ workoutState.sets # <<>>
  /\ workoutState.currentSet > 1

\* C18: under serialized operations every persisted set is numbered from 1 and
\* its set_number is greater than that of every set persisted before it for
\* the same session and exercise (so the numbers are pairwise distinct), over
\* logSet, manual navigation, automatic advance, resume and set deletion.
C18_SetNumbersIncrease ==
  [][LogSetSucceeded =>
       \A n \in BagToSet(exercise_sets' (-) exercise_sets) :
         /\ n.set_number >= 1
         /\ \A r \in BagToSet(exercise_sets) :
              (r.workout_session_id = n.workout_session_id /\ r.exercise_id = n.exercise_id)
                => r.set_number < n.set_number]_vars

\* the exercise sequence of the session sid: that of its routine, empty for a
\* custom session
SessionExercises(sid) ==
  IF workout_sessions[sid].routine_id = NULL THEN <<>>
  ELSE routine_exercises[workout_sessions[sid].routine_id]

\* C19: a resume of an active session of the user in which every exercise has
\* met its target, or whose exercise sequence is empty, succeeds: the page
\* holds the session and its persisted sets, currentExerciseIndex is the
\* sequence length, and cancel and finish can be issued.
C19_ResumeAtEndSucceeds ==
  [][\A sid \in 1..MaxSessions :
       (/\ ResumeExistingSession(sid)
        /\ Resumable(sid)
        /\ AllTargetsMet(loadExistingSets(sid), SessionExercises(sid)))
         => /\ route' = "session"
            /\ workoutState'.session = sid
            /\ workoutState'.sets = loadExistingSets(sid)
            /\ workoutState'.currentExerciseIndex = Len(SessionExercises(sid))
            /\ (ENABLED FinishWorkout)'
            /\ (ENABLED CancelWorkout)']_vars

\* C20: when start-from-routine or start-custom finds an active session of
\* today, the page holds that session with the currentExerciseIndex and
\* currentSet that the resume reconstruction computes from its persisted sets.
C20_StartOnActiveSessionIsResume ==
  [][(StartedNow /\ Cardinality(ActiveToday) = 1) =>
       LET sid == CHOOSE s \in ActiveToday : TRUE
           rex == SessionExercises(sid)
           sets == loadExistingSets(sid)
           unfinishedIndex == findNextUnfinishedExerciseIndex(sets, rex)
       IN /\ workoutState'.session = sid
          /\ workoutState'.sets = sets
          /\ workoutState'.currentExerciseIndex = unfinishedIndex
          /\ unfinishedIndex < Len(rex) =>
               workoutState'.currentSet =
                 ResumeCurrentSet(sets, rex[unfinishedIndex + 1].exercise_id)]_vars

\* C21: whenever the page shows a current exercise and no logSet is in flight,
\* currentSet is the number of sets of the current exercise in the set
\* history plus one: after a fresh start, a start that finds today's session,
\* a resume by id, manual navigation and automatic advance.
C21_CurrentSetIsCountPlusOne ==
  (PageReady /\ workoutState.session # NULL /\ HasCurrentExercise /\ pending.op # "logSet")
    => workoutState.currentSet =
         CountSets(workoutState.sets, CurrentExercise.exercise_id) + 1

\* every persisted set of the session on the page is in the set history
HistoryHasPersistedSets ==
  \A r \in BagToSet(exercise_sets) :
    r.workout_session_id = workoutState.session
      => \E i \in DOMAIN workoutState.sets : workoutState.sets[i] = r

\* C22: a second logSet issued while the first is in flight is rejected or
\* queued: on one visit of the page no two persisted rows of an exercise get
\* the same set_number, and once no request is in flight the set history
\* contains every persisted row.
C22_LogSetNonReentrant ==
  /\ \A r \in BagToSet(exercise_sets) : CopiesIn(r, exercise_sets) = 1
  /\ \A r1, r2 \in BagToSet(exercise_sets) :
       (/\ r1.workout_session_id = r2.workout_session_id
        /\ r1.exercise_id = r2.exercise_id
        /\ r1.set_number = r2.set_number) => r1 = r2
  /\ (route = "session" /\ Idle) => HistoryHasPersistedSets

\* C23: the duplicate-session guard is a check followed by an insert: a start
\* request whose check found no active session inserts its session whatever
\* was inserted since, so two starts that both check before either inserts
\* both insert.
C23_StartGuardNotAtomic ==
  [][(otherTab.start = "checked" /\ otherTab'.start = "session") =>
       /\ Len(workout_sessions') = Len(workout_sessions) + 1
       /\ workout_sessions'[Len(workout_sessions')].user_id = User
       /\ workout_sessions'[Len(workout_sessions')].status = "active"
       /\ workout_sessions'[Len(workout_sessions')].date = getLocalDateString(now)]_vars

\* two active sessions of the user for the same date
C23_Witness ==
  \E s1, s2 \in DOMAIN workout_sessions :
    /\ s1 # s2
    /\ workout_sessions[s1].user_id = User
    /\ workout_sessions[s2].user_id = User
    /\ workout_sessions[s1].status = "active"
    /\ workout_sessions[s2].status = "active"
    /\ workout_sessions[s1].date = workout_sessions[s2].date

\* C24: restTimeRemaining is never negative and is 0 whenever isResting is
\* false; a tick of the countdown at a value above 1 takes one second off and
\* leaves isResting true, and the tick at 1 leaves 0, ends the rest and is
\* the last one, so that a timer started with n >= 1 seconds ends after
\* exactly n ticks.
C24_RestCountdown ==
  /\ [](route = "session" =>
          /\ workoutState.restTimeRemaining >= 0
          /\ ~workoutState.isResting => workoutState.restTimeRemaining = 0)
  /\ [][\A h \in 1..3 :
          (RestTick(h) /\ workoutState.restTimeRemaining >= 1) =>
            IF workoutState.restTimeRemaining > 1
            THEN /\ workoutState'.restTimeRemaining = workoutState.restTimeRemaining - 1
                 /\ workoutState'.isResting
            ELSE /\ workoutState'.restTimeRemaining = 0
                 /\ ~workoutState'.isResting
                 /\ \A g \in 1..3 : ~(ENABLED RestTick(g))']_vars

\* C25: every persisted session with status completed has completed_at and
\* duration_minutes set, and every session with status cancelled has
\* duration_minutes set and completed_at unset, whichever view made the
\* transition.
C25_ClosedSessionsStamped ==
  \A s \in DOMAIN workout_sessions :
    /\ workout_sessions[s].status = "completed" =>
         /\ workout_sessions[s].completed_at # NULL
         /\ workout_sessions[s].duration_minutes # NULL
    /\ workout_sessions[s].status = "cancelled" =>
         /\ workout_sessions[s].duration_minutes # NULL
         /\ workout_sessions[s].completed_at = NULL

\* C26: when the update of finishWorkout or cancelWorkout is rejected, the
\* persisted session, the sets, the pointer, the history and the rest state
\* stay as they are, the page neither shows the completion screen nor
\* redirects, finish and cancel can be issued again, and no flag of a
\* cancellation is left behind when no session was cancelled.
C26_FailedUpdateLeavesSession ==
  [][UpdateError =>
       /\ workout_sessions' = workout_sessions
       /\ exercise_sets' = exercise_sets
       /\ workoutState' = workoutState
       /\ routineExercises' = routineExercises
       /\ route' = "session"
       /\ ~workoutComplete'
       /\ (ENABLED FinishWorkout)'
       /\ (ENABLED CancelWorkout)'
       /\ (\A s \in DOMAIN workout_sessions : workout_sessions[s].status # "cancelled")
            => ~justCancelled']_vars

\* C27: a start from a routine while the user has no active session today (the
\* store calls succeeding) ends with loading finished and a new active session
\* of that routine, dated today, held in memory with currentExerciseIndex 0
\* and currentSet 1; also when it is the first start after a cancellation.
C27_StartFromRoutineInitializes ==
  [][\A rid \in RoutineIds :
       (LoadRoutineAndCreateSession(rid) /\ ActiveToday = {}) =>
         /\ ~loading'
         /\ Len(workout_sessions') = Len(workout_sessions) + 1
         /\ workoutState'.session = Len(workout_sessions')
         /\ workout_sessions'[Len(workout_sessions')].routine_id = rid
         /\ workout_sessions'[Len(workout_sessions')].status = "active"
         /\ workout_sessions'[Len(workout_sessions')].date = getLocalDateString(now)
         /\ workoutState'.currentExerciseIndex = 0
         /\ workoutState'.currentSet = 1]_vars

\* exercise ids of the exercise sequence rex
ExerciseIds(rex) == {rex[i].exercise_id : i \in DOMAIN rex}

\* C28: every persisted set of a session that has a routine names an exercise
\* of that routine, and the exercise sequence the page logs against is that
\* of the routine of the session it holds, also when the start of another
\* routine took up today's active session.
C28_SetsBelongToSessionRoutine ==
  /\ \A r \in BagToSet(exercise_sets) :
       workout_sessions[r.workout_session_id].routine_id # NULL
         => r.exercise_id \in ExerciseIds(SessionExercises(r.workout_session_id))
  /\ (/\ PageReady
      /\ workoutState.session # NULL
      /\ workout_sessions[workoutState.session].routine_id # NULL)
       => routineExercises = SessionExercises(workoutState.session)

\* C29: the exercise sequence of a session is the one taken at its start:
\* an edit of the routine while the session is active changes neither the
\* sequence and targets on the page nor those the session gets when it is
\* resumed.
C29_RoutineEditKeepsSessionSequence ==
  [][HandleSaveRoutine =>
       /\ routineExercises' = routineExercises
       /\ \A sid \in DOMAIN workout_sessions :
            workout_sessions[sid].status = "active"
              => SessionExercises(sid)' = SessionExercises(sid)]_vars

\* a step in which the insert of a logSet succeeded and its try block calls
\* nextExercise()
AdvanceApplied ==
  /\ pending.op \in {"logSet", "logSetTwice", "logSetMoved"}
  /\ exercise_sets' # exercise_sets
  /\ LET c == pending.ws
         rex == pending.rex
         currentExercise == rex[c.currentExerciseIndex + 1]
         data == NewSetRow(c, currentExercise, pending.weight, pending.reps)
     IN /\ ~IsComplete(Append(c.sets, data), rex)
        /\ ShouldAdvance(c.currentSet + 1, currentExercise, c.currentExerciseIndex, rex)

\* the page stays on its session and the index goes down / up
IndexMovedBack ==
  /\ route = "session"
  /\ route' = "session"
  /\ workoutState.session # NULL
  /\ workoutState'.currentExerciseIndex < workoutState.currentExerciseIndex

IndexMovedForward ==
  /\ route = "session"
  /\ route' = "session"
  /\ workoutState.session # NULL
  /\ workoutState'.currentExerciseIndex > workoutState.currentExerciseIndex

\* C30: on a page with a non-empty exercise sequence of length n,
\* currentExerciseIndex stays within 0..n; it is moved back only from an
\* index above 0, moved forward by the Next button or by the automatic
\* advance only from an index below n-1, and a set is persisted only for an
\* index within 0..n-1.
C30_IndexWithinSequence ==
  /\ []((route = "session" /\ routineExercises # <<>>) =>
          workoutState.currentExerciseIndex \in 0..Len(routineExercises))
  /\ [][/\ (IndexMovedBack => workoutState.currentExerciseIndex > 0)
         /\ (IndexMovedForward =>
               workoutState.currentExerciseIndex < Len(routineExercises) - 1)
         /\ (AdvanceApplied =>
               workoutState.currentExerciseIndex < Len(routineExercises) - 1)
         /\ ((route = "session" /\ exercise_sets' # exercise_sets) =>
               pending.ws.currentExerciseIndex \in 0..(Len(pending.rex) - 1))]_vars

====
